---- MODULE Spec2Model ----
(***************************************************************************)
(* Quiz management backend: src/controller/quizController.js.              *)
(*                                                                         *)
(* The three collections (Quiz, CompletedQuiz, Score) are the state.  A    *)
(* request handler runs on one of the concurrent request slots Procs; a    *)
(* handler that reads the store and writes it later (submitQuiz,           *)
(* deleteQuiz, deleteQuestion) is one action per store round trip, so      *)
(* that other requests interleave at its awaits.  Every other handler is   *)
(* one action.                                                             *)
(*                                                                         *)
(* Collections are sequences in insertion order: an unsorted find returns  *)
(* documents in that order, findOne the first match, and completedAt (set  *)
(* at insertion) grows along the CompletedQuiz sequence.                   *)
(*                                                                         *)
(* resp is the response the last step sent, NoResp when it sent none.  A   *)
(* response of addQuiz or updateQuiz carries the id of its Quiz document.  *)
(*                                                                         *)
(* percentage is kept as an exact fraction <<num, den>> in lowest terms;   *)
(* the rounding of the double is not modelled.  NaN is <<0, 0>>.           *)
(***************************************************************************)
EXTENDS Integers, Sequences, FiniteSets, TLC

\* ---------------------------------------------------------------- bounds
MaxQuestions == 2
GradeQuestions == 3
MaxAttempts == 2
RaceAttempts == 2

\* ---------------------------------------------------------------- inputs
Procs == {"p1", "p2"}
Students == {"s1", "s2"}
Admin == "adm"
Users == Students \cup {Admin}
\* the _ids Quiz.create hands out, in order
QuizIds == {1, 2}

Role(u) == IF u = Admin THEN "admin" ELSE "student"

\* Question documents as a client sends them.  _id is the subdocument id:
\* generated by the ODM or sent by the client, so a list may repeat one.
q1 == [_id |-> 1, question |-> "Q1", options |-> <<"A", "B">>, correctAnswer |-> "A"]
q2 == [_id |-> 2, question |-> "Q2", options |-> <<"B", "C">>, correctAnswer |-> "B"]
qNoText == [_id |-> 2, question |-> "", options |-> <<"A">>, correctAnswer |-> "A"]
qNoOptions == [_id |-> 2, question |-> "Q4", options |-> <<>>, correctAnswer |-> "A"]

GoodQuestions == {q1, q2}
QuestionIds == {1, 2}

SeqsUpTo(S, n) == UNION {[1..k -> S] : k \in 0..n}

\* request bodies of addQuiz / updateQuiz
QuestionLists == SeqsUpTo(GoodQuestions, MaxQuestions) \cup {<<qNoText>>, <<qNoOptions>>}
QuizBodies ==
  {[title |-> "T", questions |-> qs, duration |-> 30] : qs \in QuestionLists}
  \cup {[title |-> "", questions |-> <<q1>>, duration |-> 30],
        [title |-> "T", questions |-> <<q1>>, duration |-> 0]}

\* answers[i].selectedOption, by position
SelectedOptions == {"A", "B"}
GradeLists == SeqsUpTo(GoodQuestions, GradeQuestions)
AnswerLists == SeqsUpTo(SelectedOptions, GradeQuestions)

\* ---------------------------------------------------------------- state
\* quizzes    the Quiz collection, by _id; NoQuiz where no document is
\* quizCount  the number of Quiz documents created so far: _id and createdAt
\*            both grow with it
\* completed  the CompletedQuiz collection, in insertion order
\* scores     the Score collection, in insertion order
\* pc         where each request slot stands: "idle", or the await its handler
\*            is suspended at
\* local      the locals of the handler running on each slot
\* resp       the response sent by the last step
VARIABLES quizzes, quizCount, completed, scores, pc, local, resp

vars == <<quizzes, quizCount, completed, scores, pc, local, resp>>

NoQuiz == [exists |-> FALSE]
NoLocal == [op |-> "none"]
NoResp == [op |-> "none", status |-> 0]
NaN == <<0, 0>>

\* ---------------------------------------------------------------- helpers
RECURSIVE Gcd(_, _)
Gcd(a, b) == IF b = 0 THEN a ELSE Gcd(b, a % b)

\* (score / n) * 100
Percentage(score, n) ==
  IF n = 0 THEN NaN
  ELSE LET g == Gcd(100 * score, n) IN <<(100 * score) \div g, n \div g>>

\* Quiz.findById
findById(id) == quizzes[id]

\* res.status(s).json(...); op names the handler that answers
Reply(p, r) == resp' = r
\* next(new ErrorHandler(message, status)), or a throw caught by catchAsyncErrors
Error(op, message, status) ==
  [op |-> op, status |-> status, success |-> FALSE, message |-> message]

\* the validation shared by addQuiz and updateQuiz: the error message, or ""
RECURSIVE QuestionsError(_)
QuestionsError(questions) ==
  IF questions = <<>> THEN ""
  ELSE LET q == Head(questions) IN
       IF q.question = "" \/ q.correctAnswer = ""
         THEN "Each question must have a question, options, and correctAnswer!"
       ELSE IF Len(q.options) = 0 THEN "Options must be a non-empty array!"
       ELSE QuestionsError(Tail(questions))

ValidationError(title, questions, duration) ==
  IF title = "" \/ duration = 0 THEN "Title, questions, and duration are required!"
  ELSE IF Len(questions) = 0 THEN "Questions must be a non-empty array!"
  ELSE QuestionsError(questions)

Idle(p) == pc[p] = "idle"

\* ---------------------------------------------------------------- authoring
addQuiz(p, title, questions, duration) ==
  /\ Idle(p)
  /\ LET err == ValidationError(title, questions, duration) IN
     IF err # "" THEN
       /\ Reply(p, Error("addQuiz", err, 400))
       /\ UNCHANGED <<quizzes, quizCount>>
     ELSE
       /\ quizCount + 1 \in QuizIds
       /\ LET newQuiz == [exists |-> TRUE, id |-> quizCount + 1, title |-> title,
                          questions |-> questions, duration |-> duration,
                          createdBy |-> Admin] IN
          /\ quizzes' = [quizzes EXCEPT ![quizCount + 1] = newQuiz]
          /\ quizCount' = quizCount + 1
          /\ Reply(p, [op |-> "addQuiz", status |-> 201, success |-> TRUE,
                       message |-> "Quiz added successfully!", quiz |-> newQuiz.id])
  /\ UNCHANGED <<completed, scores, pc, local>>

updateQuiz(p, id, title, questions, duration) ==
  /\ Idle(p)
  /\ LET err == ValidationError(title, questions, duration) IN
     IF err # "" THEN
       /\ Reply(p, Error("updateQuiz", err, 400))
       /\ UNCHANGED quizzes
     ELSE IF ~findById(id).exists THEN
       /\ Reply(p, Error("updateQuiz", "Quiz not found!", 404))
       /\ UNCHANGED quizzes
     ELSE
       LET updatedQuiz == [findById(id) EXCEPT !.title = title,
                              !.questions = questions, !.duration = duration] IN
       /\ quizzes' = [quizzes EXCEPT ![id] = updatedQuiz]
       /\ Reply(p, [op |-> "updateQuiz", status |-> 200, success |-> TRUE,
                    message |-> "Quiz updated successfully!", quiz |-> updatedQuiz.id])
  /\ UNCHANGED <<quizCount, completed, scores, pc, local>>

\* deleteQuiz.  Quiz.findById and Quiz.findByIdAndDelete are one step: a request
\* between them changes the outcome only when it deletes the same quiz, and then
\* the store ends in the same state.
deleteQuiz(p, id) ==
  /\ Idle(p)
  /\ IF ~findById(id).exists THEN
       /\ Reply(p, Error("deleteQuiz", "Quiz not found!", 404))
       /\ UNCHANGED quizzes
     ELSE
       /\ quizzes' = [quizzes EXCEPT ![id] = NoQuiz]
       /\ Reply(p, [op |-> "deleteQuiz", status |-> 200, success |-> TRUE,
                    message |-> "Quiz deleted successfully!"])
  /\ UNCHANGED <<quizCount, completed, scores, pc, local>>

\* only the first match removed
RECURSIVE FilterQuestions_firstOnly(_, _)
FilterQuestions_firstOnly(questions, questionId) ==
  IF questions = <<>> THEN <<>>
  ELSE IF Head(questions)._id # questionId
    THEN <<Head(questions)>> \o FilterQuestions_firstOnly(Tail(questions), questionId)
    ELSE Tail(questions)

\* Array.prototype.filter with q => q._id.toString() !== questionId
RECURSIVE FilterQuestions(_, _)
FilterQuestions(questions, questionId) ==
  IF questions = <<>> THEN <<>>
  ELSE IF Head(questions)._id # questionId
    THEN <<Head(questions)>> \o FilterQuestions(Tail(questions), questionId)
    ELSE FilterQuestions(Tail(questions), questionId)

\* deleteQuestion, from the answer of Quiz.findById to the call of quiz.save().
\* The assignment marks quiz.questions modified when the filtered list differs.
deleteQuestionFind(p, quizId, questionId) ==
  /\ Idle(p)
  /\ IF ~findById(quizId).exists THEN
       /\ Reply(p, Error("deleteQuestion", "Quiz not found!", 404))
       /\ UNCHANGED <<pc, local>>
     ELSE
       LET filtered == FilterQuestions(findById(quizId).questions, questionId) IN
       /\ pc' = [pc EXCEPT ![p] = "deleteQuestion_save"]
       /\ local' = [local EXCEPT ![p] =
            [op |-> "deleteQuestion", quizId |-> quizId, questions |-> filtered,
             modified |-> (filtered # findById(quizId).questions)]]
       /\ resp' = NoResp
  /\ UNCHANGED <<quizzes, quizCount, completed, scores>>

\* deleteQuestion, quiz.save() and the response.  save() writes the modified
\* paths, nothing when there is none, and throws when the document is gone.
deleteQuestionSave(p) ==
  /\ pc[p] = "deleteQuestion_save"
  /\ LET l == local[p] IN
     IF ~l.modified THEN
       /\ UNCHANGED quizzes
       /\ Reply(p, [op |-> "deleteQuestion", status |-> 200, success |-> TRUE,
                    message |-> "Question deleted successfully!"])
     ELSE IF ~findById(l.quizId).exists THEN
       /\ UNCHANGED quizzes
       /\ Reply(p, Error("deleteQuestion", "DocumentNotFoundError", 500))
     ELSE
       /\ quizzes' = [quizzes EXCEPT ![l.quizId].questions = l.questions]
       /\ Reply(p, [op |-> "deleteQuestion", status |-> 200, success |-> TRUE,
                    message |-> "Question deleted successfully!"])
  /\ pc' = [pc EXCEPT ![p] = "idle"]
  /\ local' = [local EXCEPT ![p] = NoLocal]
  /\ UNCHANGED <<quizCount, completed, scores>>

\* ---------------------------------------------------------------- submission
\* the query without the student: findOne({ quiz })
RECURSIVE findOneCompleted_quizOnly(_, _, _)
findOneCompleted_quizOnly(docs, quizId, userId) ==
  IF docs = <<>> THEN NoLocal
  ELSE IF Head(docs).quiz = quizId THEN Head(docs)
  ELSE findOneCompleted_quizOnly(Tail(docs), quizId, userId)

\* CompletedQuiz.findOne({ quiz, student }): the first match, or NoLocal
RECURSIVE findOneCompleted(_, _, _)
findOneCompleted(docs, quizId, userId) ==
  IF docs = <<>> THEN NoLocal
  ELSE IF Head(docs).quiz = quizId /\ Head(docs).student = userId THEN Head(docs)
  ELSE findOneCompleted(Tail(docs), quizId, userId)

\* every question compared with the first answer
RECURSIVE CountCorrect_firstAnswer(_, _, _)
CountCorrect_firstAnswer(questions, answers, index) ==
  IF index > Len(questions) THEN 0
  ELSE (IF questions[index].correctAnswer = answers[1] THEN 1 ELSE 0)
       + CountCorrect_firstAnswer(questions, answers, index + 1)

\* the forEach of submitQuiz: score after questions index..n
RECURSIVE CountCorrect(_, _, _)
CountCorrect(questions, answers, index) ==
  IF index > Len(questions) THEN 0
  ELSE (IF questions[index].correctAnswer = answers[index] THEN 1 ELSE 0)
       + CountCorrect(questions, answers, index + 1)

\* CompletedQuiz.create / save and Score.create when the store accepts the
\* document: the schemas put no unique index on (student, quiz) and no validator
\* on score, totalQuestions and percentage
CompletedQuizCreate(docs, doc) == Append(docs, doc)
ScoreCreate(docs, doc) == Append(docs, doc)

\* the document handed to CompletedQuiz.create
CompletedDoc(userId, quizId, questions, answers) ==
  LET score == CountCorrect(questions, answers, 1) IN
  [student |-> userId, quiz |-> quizId, score |-> score,
   totalQuestions |-> Len(questions),
   percentage |-> Percentage(score, Len(questions)),
   questions |-> [index \in 1..Len(questions) |->
      [question |-> questions[index].question, options |-> questions[index].options,
       correctAnswer |-> questions[index].correctAnswer,
       selectedOption |-> answers[index]]]]

\* the score written where the question count belongs
ScoreDoc_totalIsScore(quizId, userId, score, totalQuestions, percentage) ==
  [quizId |-> quizId, studentId |-> userId, score |-> score,
   totalQuestions |-> score, percentage |-> percentage]

\* the document handed to Score.create
ScoreDoc(quizId, userId, score, totalQuestions, percentage) ==
  [quizId |-> quizId, studentId |-> userId, score |-> score,
   totalQuestions |-> totalQuestions, percentage |-> percentage]

\* submitQuiz, up to the answer of CompletedQuiz.findOne
submitQuizCheck(p, quizId, userId, answers) ==
  /\ Idle(p)
  /\ LET previousAttempt == findOneCompleted(completed, quizId, userId) IN
     IF previousAttempt # NoLocal THEN
       /\ Reply(p, [op |-> "submitQuiz", status |-> 400, success |-> FALSE,
                    message |-> "You have already taken this quiz.",
                    result |-> previousAttempt])
       /\ UNCHANGED <<pc, local>>
     ELSE
       /\ pc' = [pc EXCEPT ![p] = "submitQuiz_findQuiz"]
       /\ local' = [local EXCEPT ![p] =
            [op |-> "submitQuiz", quizId |-> quizId, userId |-> userId, answers |-> answers]]
       /\ resp' = NoResp
  /\ UNCHANGED <<quizzes, quizCount, completed, scores>>

\* submitQuiz, from the answer of Quiz.findById to the call of CompletedQuiz.create
submitQuizFind(p) ==
  /\ pc[p] = "submitQuiz_findQuiz"
  /\ LET l == local[p]
         quiz == findById(l.quizId) IN
     IF ~quiz.exists THEN
       /\ Reply(p, Error("submitQuiz", "Quiz not found", 404))
       /\ pc' = [pc EXCEPT ![p] = "idle"]
       /\ local' = [local EXCEPT ![p] = NoLocal]
     ELSE IF Len(l.answers) < Len(quiz.questions) THEN
       \* answers[index] is undefined: TypeError
       /\ Reply(p, Error("submitQuiz", "TypeError", 500))
       /\ pc' = [pc EXCEPT ![p] = "idle"]
       /\ local' = [local EXCEPT ![p] = NoLocal]
     ELSE
       /\ pc' = [pc EXCEPT ![p] = "submitQuiz_create"]
       /\ local' = [local EXCEPT ![p] =
            [op |-> "submitQuiz", quizId |-> l.quizId, userId |-> l.userId,
             completedQuiz |-> CompletedDoc(l.userId, l.quizId, quiz.questions, l.answers)]]
       /\ resp' = NoResp
  /\ UNCHANGED <<quizzes, quizCount, completed, scores>>

\* submitQuiz, CompletedQuiz.create succeeds
submitQuizCreate(p) ==
  /\ pc[p] = "submitQuiz_create"
  /\ completed' = CompletedQuizCreate(completed, local[p].completedQuiz)
  /\ pc' = [pc EXCEPT ![p] = "submitQuiz_score"]
  /\ resp' = NoResp /\ UNCHANGED <<quizzes, quizCount, scores, local>>

\* submitQuiz, CompletedQuiz.create throws (store or validation error)
submitQuizCreateFail(p) ==
  /\ pc[p] = "submitQuiz_create"
  /\ Reply(p, Error("submitQuiz", "create failed", 500))
  /\ pc' = [pc EXCEPT ![p] = "idle"]
  /\ local' = [local EXCEPT ![p] = NoLocal]
  /\ UNCHANGED <<quizzes, quizCount, completed, scores>>

\* submitQuiz, Score.create succeeds, and the response
submitQuizScore(p) ==
  /\ pc[p] = "submitQuiz_score"
  /\ LET c == local[p].completedQuiz IN
     /\ scores' = ScoreCreate(scores,
          ScoreDoc(local[p].quizId, local[p].userId, c.score, c.totalQuestions, c.percentage))
     /\ Reply(p, [op |-> "submitQuiz", status |-> 200, success |-> TRUE,
                  message |-> "Quiz submitted", result |-> c])
  /\ pc' = [pc EXCEPT ![p] = "idle"]
  /\ local' = [local EXCEPT ![p] = NoLocal]
  /\ UNCHANGED <<quizzes, quizCount, completed>>

\* a catch block that takes the attempt back
submitQuizScoreFail_rollback(p) ==
  /\ pc[p] = "submitQuiz_score"
  /\ \E i \in 1..Len(completed) :
       /\ completed[i] = local[p].completedQuiz
       /\ completed' = SubSeq(completed, 1, i - 1) \o SubSeq(completed, i + 1, Len(completed))
  /\ Reply(p, Error("submitQuiz", "Failed to save score", 500))
  /\ pc' = [pc EXCEPT ![p] = "idle"]
  /\ local' = [local EXCEPT ![p] = NoLocal]
  /\ UNCHANGED <<quizzes, quizCount, scores>>

\* submitQuiz, Score.create throws: the catch block
submitQuizScoreFail(p) ==
  /\ pc[p] = "submitQuiz_score"
  /\ Reply(p, Error("submitQuiz", "Failed to save score", 500))
  /\ pc' = [pc EXCEPT ![p] = "idle"]
  /\ local' = [local EXCEPT ![p] = NoLocal]
  /\ UNCHANGED <<quizzes, quizCount, completed, scores>>

\* request bodies of saveCompletedQuiz
SaveBodies ==
  {[score |-> 1, totalQuestions |-> 2, percentage |-> <<50, 1>>, questions |-> <<>>]}

saveCompletedQuiz(p, student, quiz, body) ==
  /\ Idle(p)
  /\ LET completedQuiz == [student |-> student, quiz |-> quiz, score |-> body.score,
                           totalQuestions |-> body.totalQuestions,
                           percentage |-> body.percentage,
                           questions |-> body.questions] IN
     /\ completed' = CompletedQuizCreate(completed, completedQuiz)
     /\ Reply(p, [op |-> "saveCompletedQuiz", status |-> 201,
                  message |-> "Quiz completed successfully",
                  completedQuiz |-> completedQuiz])
  /\ UNCHANGED <<quizzes, quizCount, scores, pc, local>>

\* ---------------------------------------------------------------- queries
\* A read handler is one step: it answers from one state of the store.
\* .sort({ score: -1 }): stable, by descending score
RECURSIVE InsertByScore(_, _)
InsertByScore(sorted, doc) ==
  IF sorted = <<>> THEN <<doc>>
  ELSE IF Head(sorted).score >= doc.score
    THEN <<Head(sorted)>> \o InsertByScore(Tail(sorted), doc)
    ELSE <<doc>> \o sorted

RECURSIVE SortByScoreDesc(_)
SortByScoreDesc(docs) ==
  IF docs = <<>> THEN <<>>
  ELSE InsertByScore(SortByScoreDesc(SubSeq(docs, 1, Len(docs) - 1)), docs[Len(docs)])

\* the find without the sort
Leaderboard_unsorted(quizId) ==
  SelectSeq(scores, LAMBDA s : s.quizId = quizId)

\* Score.find({ quizId }).sort({ score: -1 })
Leaderboard(quizId) ==
  SortByScoreDesc(SelectSeq(scores, LAMBDA s : s.quizId = quizId))

\* Quiz.find()
RECURSIVE AllQuizzes(_)
AllQuizzes(id) ==
  IF id > quizCount THEN <<>>
  ELSE (IF quizzes[id].exists THEN <<quizzes[id]>> ELSE <<>>) \o AllQuizzes(id + 1)

\* Quiz.findOne().sort({ createdAt: -1 }): the quiz created last, or NoQuiz
RECURSIVE LatestQuiz(_)
LatestQuiz(id) ==
  IF id = 0 THEN NoQuiz
  ELSE IF quizzes[id].exists THEN quizzes[id]
  ELSE LatestQuiz(id - 1)

\* the find without the student
CompletedOf_allStudents(student) ==
  [i \in 1..Len(completed) |-> [completed[i] EXCEPT !.quiz = quizzes[completed[i].quiz]]]

\* CompletedQuiz.find({ student }).populate("quiz"): a quiz that is gone is null
CompletedOf(student) ==
  LET mine == SelectSeq(completed, LAMBDA c : c.student = student) IN
  [i \in 1..Len(mine) |-> [mine[i] EXCEPT !.quiz = quizzes[mine[i].quiz]]]

Reverse(s) == [i \in 1..Len(s) |-> s[Len(s) + 1 - i]]

getAllQuizzes(p, user) ==
  /\ Idle(p)
  /\ LET quizList ==
           IF Role(user) = "admin" THEN AllQuizzes(1)
           ELSE LET latestQuiz == LatestQuiz(quizCount)
                    completedQuizzes == CompletedOf(user)
                    completedQuizIds ==
                      [i \in 1..Len(completedQuizzes) |-> completedQuizzes[i].quiz]
                IN SelectSeq(<<latestQuiz>> \o completedQuizIds, LAMBDA q : q.exists) IN
     Reply(p, [op |-> "getAllQuizzes", status |-> 200, success |-> TRUE,
               user |-> user, quizzes |-> quizList])
  /\ UNCHANGED <<quizzes, quizCount, completed, scores, pc, local>>

getSingleQuiz(p, id) ==
  /\ Idle(p)
  /\ IF ~findById(id).exists THEN Reply(p, Error("getSingleQuiz", "Quiz not found!", 404))
     ELSE Reply(p, [op |-> "getSingleQuiz", status |-> 200, success |-> TRUE,
                    quiz |-> findById(id)])
  /\ UNCHANGED <<quizzes, quizCount, completed, scores, pc, local>>

getLatestQuiz(p) ==
  /\ Idle(p)
  /\ LET latestQuiz == LatestQuiz(quizCount) IN
     IF ~latestQuiz.exists THEN Reply(p, Error("getLatestQuiz", "No quizzes found!", 404))
     ELSE Reply(p, [op |-> "getLatestQuiz", status |-> 200, success |-> TRUE,
                    latestQuiz |-> latestQuiz])
  /\ UNCHANGED <<quizzes, quizCount, completed, scores, pc, local>>

\* quizId is a path segment of the route, never empty
getQuizLeaderboard(p, quizId) ==
  /\ Idle(p)
  /\ Reply(p, [op |-> "getQuizLeaderboard", status |-> 200, success |-> TRUE,
               quizId |-> quizId, leaderboard |-> Leaderboard(quizId)])
  /\ UNCHANGED <<quizzes, quizCount, completed, scores, pc, local>>

getCompletedQuizzes(p, studentId) ==
  /\ Idle(p)
  /\ LET completedQuizzes == Reverse(CompletedOf(studentId)) IN
     IF Len(completedQuizzes) = 0 THEN
       Reply(p, Error("getCompletedQuizzes", "No completed quizzes found", 404))
     ELSE
       LET kept == SelectSeq(completedQuizzes, LAMBDA c : c.quiz.exists)
           formattedQuizzes ==
             [i \in 1..Len(kept) |->
                [score |-> [score |-> kept[i].score,
                            totalQuestions |-> kept[i].totalQuestions],
                 quiz |-> kept[i].quiz]] IN
       Reply(p, [op |-> "getCompletedQuizzes", status |-> 200, success |-> TRUE,
                 studentId |-> studentId, completedQuizzes |-> formattedQuizzes])
  /\ UNCHANGED <<quizzes, quizCount, completed, scores, pc, local>>

\* ---------------------------------------------------------------- specifications
\* requests that passed the already-taken check and have not yet inserted
Inserting == {p \in Procs : pc[p] \in {"submitQuiz_findQuiz", "submitQuiz_create"}}

\* the CompletedQuiz collection holds fewer than n documents, those about to be
\* inserted counted
Room(n) == Len(completed) + Cardinality(Inserting) < n

\* a submitQuiz request that will insert nothing, or has room to insert
MaySubmit(n, quizId, userId) ==
  findOneCompleted(completed, quizId, userId) # NoLocal \/ Room(n)

Init ==
  /\ quizzes = [i \in QuizIds |-> NoQuiz]
  /\ quizCount = 0
  /\ completed = <<>>
  /\ scores = <<>>
  /\ pc = [p \in Procs |-> "idle"]
  /\ local = [p \in Procs |-> NoLocal]
  /\ resp = NoResp

\* quiz authoring, requests interleaved
NextAuthoring ==
  \E p \in Procs :
    \/ \E b \in QuizBodies : addQuiz(p, b.title, b.questions, b.duration)
    \/ \E id \in QuizIds, b \in QuizBodies :
         updateQuiz(p, id, b.title, b.questions, b.duration)
    \/ \E id \in QuizIds : deleteQuiz(p, id)
    \/ \E id \in QuizIds, qid \in QuestionIds : deleteQuestionFind(p, id, qid)
    \/ deleteQuestionSave(p)

SpecAuthoring == Init /\ [][NextAuthoring]_vars

\* submission, requests interleaved, on one quiz of one question
RaceIds == {1}
RaceLists == {<<q1>>}
RaceAnswers == {<<"A">>, <<"B">>}
RaceSaveBodies ==
  {[score |-> 3, totalQuestions |-> 2, percentage |-> <<100, 1>>, questions |-> <<>>]}

Next ==
  \E p \in Procs :
    \/ \E qs \in RaceLists : quizCount = 0 /\ addQuiz(p, "T", qs, 30)
    \/ \E id \in RaceIds, qs \in RaceLists : updateQuiz(p, id, "T", qs, 30)
    \/ \E id \in RaceIds : deleteQuiz(p, id)
    \/ \E id \in RaceIds, qid \in QuestionIds : deleteQuestionFind(p, id, qid)
    \/ deleteQuestionSave(p)
    \/ \E id \in RaceIds, s \in Students, a \in RaceAnswers :
         MaySubmit(RaceAttempts, id, s) /\ submitQuizCheck(p, id, s, a)
    \/ submitQuizFind(p)
    \/ submitQuizCreate(p)
    \/ submitQuizCreateFail(p)
    \/ submitQuizScore(p)
    \/ submitQuizScoreFail(p)
    \/ \E s \in Students, id \in RaceIds, b \in RaceSaveBodies :
         Room(RaceAttempts) /\ saveCompletedQuiz(p, s, id, b)

Spec == Init /\ [][Next]_vars

\* grading, one request at a time: one student, one quiz, every question list
\* and every answer list
NextGrade ==
  \/ \E qs \in GradeLists : quizCount = 0 /\ addQuiz("p1", "T", qs, 30)
  \/ \E id \in QuizIds, qid \in QuestionIds : deleteQuestionFind("p1", id, qid)
  \/ deleteQuestionSave("p1")
  \/ \E id \in QuizIds, a \in AnswerLists :
       submitQuizCheck("p1", id, "s1", a)
  \/ submitQuizFind("p1")
  \/ submitQuizCreate("p1")
  \/ submitQuizScore("p1")

SpecGrade == Init /\ [][NextGrade]_vars

\* the read handlers, one request at a time
QueryLists == {<<q1>>}
QueryAnswers == {<<"A">>, <<"B">>}

NextQuery ==
  \/ \E qs \in QueryLists : addQuiz("p1", "T", qs, 30)
  \/ \E id \in QuizIds : deleteQuiz("p1", id)
  \/ \E id \in QuizIds, s \in Students, a \in QueryAnswers :
       MaySubmit(MaxAttempts, id, s) /\ submitQuizCheck("p1", id, s, a)
  \/ submitQuizFind("p1")
  \/ submitQuizCreate("p1")
  \/ submitQuizScore("p1")
  \/ submitQuizScoreFail("p1")
  \/ \E s \in Students, id \in QuizIds, b \in SaveBodies :
       Room(MaxAttempts) /\ saveCompletedQuiz("p1", s, id, b)
  \/ \E u \in Users : getAllQuizzes("p1", u)
  \/ \E id \in QuizIds : getSingleQuiz("p1", id)
  \/ getLatestQuiz("p1")
  \/ \E id \in QuizIds : getQuizLeaderboard("p1", id)
  \/ \E s \in Students : getCompletedQuizzes("p1", s)

SpecQuery == Init /\ [][NextQuery]_vars

\* ---------------------------------------------------------------- properties
\* indices of the attempts / score records of student s on quiz q
AttemptsOf(docs, q, s) == {i \in 1..Len(docs) : docs[i].quiz = q /\ docs[i].student = s}
ScoresOf(docs, q, s) == {i \in 1..Len(docs) : docs[i].quizId = q /\ docs[i].studentId = s}

\* the attempt of s on q stored first
FirstAttempt(q, s) ==
  completed[CHOOSE i \in AttemptsOf(completed, q, s) :
              \A j \in AttemptsOf(completed, q, s) : i <= j]

\* a submitQuiz of s on q has answered 200: it is the step that wrote the score record
SubmittedOk(q, s) == ScoresOf(scores, q, s) # {}

AlreadyTaken(r) ==
  r.op = "submitQuiz" /\ r.status = 400 /\ r.message = "You have already taken this quiz."

\* C1: once a submitQuiz of student s on quiz q has succeeded, a submitQuiz of s on
\* q that starts later, with any answers, adds no attempt and no score record, ends
\* at once and answers with the attempt stored first and the already-taken message.
C1_ResubmitReturnsFirst ==
  [][\A q \in RaceIds : \A s \in Students :
       SubmittedOk(q, s) =>
         \A p \in Procs : \A a \in RaceAnswers :
           submitQuizCheck(p, q, s, a)
             => /\ completed' = completed
                /\ scores' = scores
                /\ pc' = pc
                /\ AlreadyTaken(resp')
                /\ resp'.result = FirstAttempt(q, s)]_vars

C1_Witness ==
  /\ AlreadyTaken(resp)
  /\ SubmittedOk(resp.result.quiz, resp.result.student)
  /\ Len(completed) = 1

\* C2: the CompletedQuiz collection never holds two attempts of one student on one
\* quiz.
C2_OneAttemptPerPair ==
  \A q \in QuizIds : \A s \in Students : Cardinality(AttemptsOf(completed, q, s)) <= 1

\* C3: every stored attempt has 0 <= score <= totalQuestions and
\* percentage = 100 * score / totalQuestions.
C3_ScoreWithinTotal ==
  \A i \in 1..Len(completed) :
    LET c == completed[i] IN
    /\ 0 <= c.score
    /\ c.score <= c.totalQuestions
    /\ c.percentage[2] # 0
    /\ c.percentage[1] * c.totalQuestions = 100 * c.score * c.percentage[2]

\* C4: a submission that is graded gets totalQuestions = n, score = the number of
\* positions i with Q[i].correctAnswer = answers[i], and a snapshot that carries
\* question i with answers[i]; that document is the one stored.
C4_ScoreByPosition ==
  [][\A p \in Procs :
       /\ (pc[p] = "submitQuiz_findQuiz" /\ pc'[p] = "submitQuiz_create") =>
            LET Q == quizzes[local[p].quizId].questions
                a == local[p].answers
                d == local'[p].completedQuiz IN
            /\ d.student = local[p].userId /\ d.quiz = local[p].quizId
            /\ d.totalQuestions = Len(Q)
            /\ d.score = Cardinality({i \in 1..Len(Q) : Q[i].correctAnswer = a[i]})
            /\ Len(d.questions) = Len(Q)
            /\ \A i \in 1..Len(Q) :
                 /\ d.questions[i].question = Q[i].question
                 /\ d.questions[i].options = Q[i].options
                 /\ d.questions[i].correctAnswer = Q[i].correctAnswer
                 /\ d.questions[i].selectedOption = a[i]
       /\ (pc[p] = "submitQuiz_findQuiz" /\ quizzes[local[p].quizId].exists
           /\ Len(local[p].answers) >= Len(quizzes[local[p].quizId].questions)
           /\ pc'[p] # pc[p]) => pc'[p] = "submitQuiz_create"
       /\ (pc[p] = "submitQuiz_create" /\ pc'[p] = "submitQuiz_score") =>
            completed' = Append(completed, local[p].completedQuiz)]_vars

\* two of three right, the first one wrong
C4_Witness ==
  \E i \in 1..Len(completed) :
    LET c == completed[i] IN
    /\ c.totalQuestions = 3 /\ c.score = 2
    /\ c.questions[1].correctAnswer # c.questions[1].selectedOption

\* C5: when Score.create fails, the request answers 500 "Failed to save score",
\* the attempt it inserted stays, no score record is added, and the pair has more
\* attempts than score records.
C5_ScoreFailureKeepsAttempt ==
  [][\A p \in Procs :
       (pc[p] = "submitQuiz_score" /\ pc'[p] # pc[p] /\ Len(scores') = Len(scores)) =>
         LET c == local[p].completedQuiz IN
         /\ resp' = Error("submitQuiz", "Failed to save score", 500)
         /\ pc'[p] = "idle"
         /\ scores' = scores
         /\ completed' = completed
         /\ \E i \in 1..Len(completed') : completed'[i] = c
         /\ Cardinality(ScoresOf(scores', c.quiz, c.student))
              < Cardinality(AttemptsOf(completed', c.quiz, c.student))]_vars

C5_Witness ==
  /\ resp = Error("submitQuiz", "Failed to save score", 500)
  /\ \E i \in 1..Len(completed) :
       ScoresOf(scores, completed[i].quiz, completed[i].student) = {}

\* occurrences of document d in the sequence docs
Count(docs, d) == Cardinality({i \in 1..Len(docs) : docs[i] = d})

\* C6: the leaderboard of quiz q holds exactly the score records of q, each as
\* often as the collection does, in order of descending score, whether q exists
\* or not.
C6_LeaderboardExactSorted ==
  resp.op = "getQuizLeaderboard" =>
    LET L == resp.leaderboard IN
    /\ \A i \in 1..Len(L) : L[i].quizId = resp.quizId /\ Count(L, L[i]) = Count(scores, L[i])
    /\ \A i \in 1..Len(scores) :
         scores[i].quizId = resp.quizId => Count(L, scores[i]) = Count(scores, scores[i])
    /\ \A i \in 1..(Len(L) - 1) : L[i].score >= L[i + 1].score

\* a deleted quiz and two entries that were inserted in ascending order
C6_Witness ==
  /\ resp.op = "getQuizLeaderboard"
  /\ ~quizzes[resp.quizId].exists
  /\ Len(resp.leaderboard) = 2
  /\ resp.leaderboard[1].score > resp.leaderboard[2].score
  /\ resp.leaderboard # SelectSeq(scores, LAMBDA s : s.quizId = resp.quizId)

ExistingIds == {i \in QuizIds : quizzes[i].exists}

\* C7: getAllQuizzes answers an admin with every stored quiz; anyone else with the
\* quiz created last, when there is one, followed by the quiz of each of the
\* requester's attempts whose quiz exists, in order, repeats kept.
C7_RoleAwareListing ==
  resp.op = "getAllQuizzes" =>
    LET L == resp.quizzes IN
    IF Role(resp.user) = "admin" THEN
      /\ Len(L) = Cardinality(ExistingIds)
      /\ \A i \in ExistingIds : \E k \in 1..Len(L) : L[k] = quizzes[i]
    ELSE
      LET latest == IF ExistingIds = {} THEN <<>>
                    ELSE <<quizzes[CHOOSE i \in ExistingIds : \A j \in ExistingIds : j <= i]>>
          mine == SelectSeq(completed,
                    LAMBDA c : c.student = resp.user /\ quizzes[c.quiz].exists) IN
      L = latest \o [k \in 1..Len(mine) |-> quizzes[mine[k].quiz]]

\* three items for two attempts on existing quizzes, the latest quiz among them
C7_Witness ==
  /\ resp.op = "getAllQuizzes" /\ Role(resp.user) = "student"
  /\ Len(resp.quizzes) = 3
  /\ \E k \in 2..3 : resp.quizzes[k] = resp.quizzes[1]
  /\ resp.quizzes[2] # resp.quizzes[3]

\* C8: getCompletedQuizzes never answers 200 with an empty list.
C8_NeverEmptySuccess ==
  (resp.op = "getCompletedQuizzes" /\ resp.status = 200) => Len(resp.completedQuizzes) > 0

C10_ScoreHasAttempt ==
  \A i \in 1..Len(scores) : \E j \in 1..Len(completed) :
    /\ completed[j].student = scores[i].studentId
    /\ completed[j].quiz = scores[i].quizId
    /\ completed[j].score = scores[i].score
    /\ completed[j].totalQuestions = scores[i].totalQuestions
    /\ completed[j].percentage = scores[i].percentage

\* a score record of a deleted quiz next to one whose attempt lost its score write
C10_Witness ==
  /\ Len(scores) = 1 /\ Len(completed) = 2
  /\ ~quizzes[scores[1].quizId].exists
  /\ scores[1].score = 1
====
